---- MODULE Spec2Model ----
(***************************************************************************)
(* HyFS (src/notes/ref.py): identity resolution over an attribute store,   *)
(* content-hash caching, the flat node index with its derived children     *)
(* map, the bidirectional tag index and the tree view built from the flat  *)
(* index.                                                                  *)
(***************************************************************************)
EXTENDS Integers, Sequences, FiniteSets, TLC

VARIABLES
    fs,             \* the filesystem: existing path -> file id
    mtime,          \* file id -> st_mtime
    content,        \* file id -> bytes of a regular file
    xattr,          \* file id -> the user.hyfs.* attributes (uuid, ctime, cid)
    storeMode,      \* whether the platform supports extended attributes
    failures,       \* number of attribute-store calls that have failed so far
    nextUuid,       \* file id -> number of uuid4() values drawn for it, plus one
    nodes,          \* HyFS.nodes: eid -> FSNode
    path_index,     \* HyFS.path_index: path -> eid
    children_index, \* HyFS.children_index: parent eid -> set of child eids
    tags,           \* HyFS.tags: tag -> set of eids
    eid_tags,       \* HyFS.eid_tags: eid -> set of tags
    adds,           \* number of add_node calls made on the index by its user
    scanTodo,       \* scan_fs: the enumerated paths not yet added
    scanned,        \* scan_fs: the paths the running/last scan enumerated
    last,           \* the last call made and what it returned
    stored,         \* history: file id -> the first uuid a resolve stored for it
    first,          \* history: file id -> the first eid a resolve returned for it
    kept            \* the caller's variable holding the first tree it kept

vars == <<fs, mtime, content, xattr, storeMode, failures, nextUuid, nodes, path_index,
          children_index, tags, eid_tags, adds, scanTodo, scanned, last,
          stored, first, kept>>

fsVars    == <<fs, mtime, content, xattr, nextUuid, failures>>
indexVars == <<nodes, path_index, children_index>>
tagVars   == <<tags, eid_tags>>
scanVars  == <<scanTodo, scanned>>
histVars  == <<stored, first, kept>>

----------------------------------------------------------------------------
(* Bounds of the model. *)

\* uuid4() is drawn at most MaxUuid times for one file.
MaxUuid == 2
\* Tags are applied to NumTagEids eids.
NumTagEids == 3
\* On a platform that supports attributes, at most MaxFailures calls fail.
MaxFailures == 2
\* The user of an index calls add_node at most MaxAdds times.
MaxAdds == 3
\* The refresh pass is run on lists of at most MaxList nodes.
MaxList == 1
\* A file is modified until its modification time reaches MaxMtime.
MaxMtime == 3
\* Python's recursion limit, scaled down: deeper recursion is a RecursionError.
RecursionLimit == 6

----------------------------------------------------------------------------
(* Values. *)

\* Python's None.
None == <<"None">>

\* `if eid:` / `if cached_cid:` / `if parent_eid:` - None is false; the strings
\* the program stores (uuids, digests) are never empty, so they are true.
Truthy(v) == v # None

\* str(uuid.uuid4()): the n-th value drawn while resolving file i; two draws
\* never agree.
uuid4(i, n) == <<"uuid", i, n>>

\* The decimal digits, and str(n) of a natural number as a sequence of them.
DigitChars == <<"0", "1", "2", "3", "4", "5", "6", "7", "8", "9">>

RECURSIVE Digits(_)
Digits(n) ==
    IF n < Len(DigitChars) THEN <<DigitChars[n + 1]>>
    ELSE Digits(n \div Len(DigitChars)) \o <<DigitChars[(n % Len(DigitChars)) + 1]>>

\* str(path.stat().st_mtime): the text of the modification time, a float; the
\* model's times are whole seconds.
str_mtime(m) == Digits(m) \o <<".", "0">>

\* sha256 of a file's bytes, as a hex digest.
sha256_hexdigest(bytes) == <<"sha256", bytes>>

\* The file of a call that touched no file.
NoFile == "nofile"

\* IOFailure: path.stat() on a path that does not exist raises.
IOFailure == <<"IOFailure">>

----------------------------------------------------------------------------
(* Paths (pathlib.Path). <<>> is the filesystem root "/" (or "."), which is *)
(* its own parent.                                                         *)

Paths == { <<>>, <<"a">>, <<"b">>, <<"a", "f">>, <<"a", "g">> }

\* Path.parent
parent(p) == IF p = <<>> THEN <<>> ELSE SubSeq(p, 1, Len(p) - 1)

\* Path.is_relative_to(other)
is_relative_to(p, other) ==
    Len(other) <= Len(p) /\ SubSeq(p, 1, Len(other)) = other

----------------------------------------------------------------------------
(* The files behind the paths.  dirB is a mount point: it lives on a second *)
(* device, where inode numbers repeat those of the first.                   *)

FileIds == {"root", "dirA", "dirB", "f1", "f2"}
DirIds  == {"root", "dirA", "dirB"}

\* path.stat().st_dev
st_dev(i) == IF i = "dirB" THEN 2 ELSE 1

\* path.stat().st_ino
st_ino(i) ==
    CASE i = "root" -> 1
      [] i = "dirA" -> 2
      [] i = "dirB" -> 2
      [] i = "f1"   -> 4
      [] i = "f2"   -> 5

Contents == {"c1", "c2"}

\* path.is_dir() / path.is_file()
is_dir(files, p)  == p \in DOMAIN files /\ files[p] \in DirIds
is_file(files, p) == p \in DOMAIN files /\ files[p] \notin DirIds

BaseLayout ==
    (<<>> :> "root") @@ (<<"a">> :> "dirA") @@ (<<"b">> :> "dirB")
      @@ (<<"a", "f">> :> "f1")

\* a/g is absent, a hard link to a/f, or a file of its own.
Layouts ==
    { BaseLayout,
      BaseLayout @@ (<<"a", "g">> :> "f1"),
      BaseLayout @@ (<<"a", "g">> :> "f2") }

NoAttrs == [uuid |-> None, ctime |-> None, cid |-> None]

----------------------------------------------------------------------------
(* Attribute store adapter.  A call fails with OSError when the platform    *)
(* refuses it; the helpers catch that.                                      *)

\* "unsupported": every os.getxattr/setxattr/removexattr raises OSError.
\* "supported": a call succeeds, or fails on its own (permissions, I/O error).
StoreModes == {"supported", "unsupported"}

\* The number of failed calls among the outcomes o (TRUE: the call succeeds,
\* FALSE: it raises OSError).
Failed(o) == Cardinality({k \in DOMAIN o : ~ o[k]})

\* The outcomes the platform can give to the attribute-store calls `calls`.
Outcomes(calls) ==
    IF storeMode = "unsupported" THEN {[k \in calls |-> FALSE]}
    ELSE {o \in [calls -> BOOLEAN] : failures + Failed(o) <= MaxFailures}

\* The failures of one operation, counted; a call the operation did not make
\* (made: the calls it made) has no outcome to choose.
Charge(o, made) ==
    /\ storeMode = "supported" => \A k \in DOMAIN o \ made : o[k]
    /\ failures' = IF storeMode = "supported" THEN failures + Failed(o) ELSE failures

\* A read whose OSError is not caught: the error comes out in place of a value.
_get_xattr_uncaught(x, key, ok) == IF ok THEN x[key] ELSE <<"OSError">>

\* _get_xattr(path, key): the stored value, or None when the attribute is
\* absent (ENODATA is an OSError too) or the call fails.
_get_xattr(x, key, ok) == IF ok THEN x[key] ELSE None

\* _set_xattr(path, key, value): [stored, x] - whether the write happened and
\* the attributes after it.
_set_xattr(x, key, value, ok) ==
    IF ok THEN [stored |-> TRUE,  x |-> [x EXCEPT ![key] = value]]
          ELSE [stored |-> FALSE, x |-> x]

\* _ensure_xattr(path, key, compute_fn): [value, stored, x]
_ensure_xattr(x, key, computed, getOk, setOk) ==
    LET value == _get_xattr(x, key, getOk) IN
    IF value # None
    THEN [value |-> value, stored |-> TRUE, x |-> x]
    ELSE LET s == _set_xattr(x, key, computed, setOk) IN
         [value |-> computed, stored |-> s.stored, x |-> s.x]

----------------------------------------------------------------------------
(* Identity resolver. *)

\* A fallback text that runs the three parts together.
fallback_data_unseparated(dev, ino, ctime) == Digits(dev) \o Digits(ino) \o ctime

\* f"{s.st_dev}:{s.st_ino}:{ctime}"
fallback_data(dev, ino, ctime) ==
    Digits(dev) \o <<":">> \o Digits(ino) \o <<":">> \o ctime

\* The text hashed with sha256, the first 32 hex digits grouped 8-4-4-4-12.
\* The digest is taken to be collision-free: it stands for the text hashed.
fallback_eid(dev, ino, ctime) == <<"hash">> \o fallback_data(dev, ino, ctime)

\* The four attribute-store calls of one _compute_eid.
EidCalls == {"get_ctime", "set_ctime", "get_uuid", "set_uuid"}

\* _compute_eid(path): [eid, x, generated, wrote, made] - the eid, the file's
\* attributes afterwards, whether uuid4() was drawn, whether the uuid was
\* stored, and the attribute-store calls made.
_compute_eid(x, dev, ino, mt, o, new_uuid) ==
    LET c     == _ensure_xattr(x, "ctime", str_mtime(mt), o.get_ctime, o.set_ctime)
        ctime == c.value
        eid   == _get_xattr(c.x, "uuid", o.get_uuid)
        made1 == {"get_ctime", "get_uuid"}
                    \cup (IF _get_xattr(x, "ctime", o.get_ctime) = None
                          THEN {"set_ctime"} ELSE {})
    IN  IF Truthy(eid)
        THEN [eid |-> eid, x |-> c.x, generated |-> FALSE, wrote |-> FALSE,
              made |-> made1]
        ELSE LET s == _set_xattr(c.x, "uuid", new_uuid, o.set_uuid) IN
             IF s.stored
             THEN [eid |-> new_uuid, x |-> s.x, generated |-> TRUE, wrote |-> TRUE,
                   made |-> made1 \cup {"set_uuid"}]
             ELSE [eid |-> fallback_eid(dev, ino, ctime), x |-> s.x,
                   generated |-> TRUE, wrote |-> FALSE,
                   made |-> made1 \cup {"set_uuid"}]

\* The stat results a resolve on a write-rejecting store is given.
FallbackDevs   == {1, 2, 12}
FallbackInos   == {2, 3, 23}
FallbackMtimes == 1..MaxMtime

\* _compute_eid of a file with the given st_dev, st_ino and st_mtime, on a
\* store that rejects every call; the call before it is remembered.
ResolveRejected(dev, ino, m) ==
    /\ storeMode = "unsupported"
    /\ LET r == _compute_eid(NoAttrs, dev, ino, m, [c \in EidCalls |-> FALSE],
                             uuid4("f1", 1))
       IN  last' = [op |-> "fallback", arg |-> <<dev, ino, str_mtime(m)>>,
                    file |-> NoFile, res |-> r.eid,
                    before |-> [arg |-> last.arg, res |-> last.res]]
    /\ UNCHANGED <<fsVars, storeMode, indexVars, tagVars, scanVars, adds, histVars>>

\* History kept beside a direct resolve of file i that returned r.
ResolveHistory(i, r) ==
    /\ stored' = IF r.wrote /\ stored[i] = None
                 THEN [stored EXCEPT ![i] = r.eid] ELSE stored
    /\ first'  = IF first[i] = None THEN [first EXCEPT ![i] = r.eid] ELSE first

\* What the call just before a resolve of p returned, when that call was a
\* resolve of p too (nothing happened to the file between the two); else None.
Before(p) == IF last.op = "resolve" /\ last.arg = p THEN last.res ELSE None

\* Identity Resolver.resolve(p), called directly.
Resolve(p) ==
    /\ scanTodo = <<>>
    /\ IF p \in DOMAIN fs
       THEN \E o \in Outcomes(EidCalls) :
              LET i == fs[p]
                  r == _compute_eid(xattr[i], st_dev(i), st_ino(i), mtime[i], o,
                                    uuid4(i, nextUuid[i]))
              IN  /\ r.generated => nextUuid[i] <= MaxUuid
                  /\ Charge(o, r.made)
                  /\ xattr' = [xattr EXCEPT ![i] = r.x]
                  /\ nextUuid' = IF r.generated THEN [nextUuid EXCEPT ![i] = @ + 1]
                                                ELSE nextUuid
                  /\ last' = [op |-> "resolve", arg |-> p, file |-> i, res |-> r.eid,
                               before |-> Before(p)]
                  /\ ResolveHistory(i, r)
       ELSE /\ last' = [op |-> "resolve", arg |-> p, file |-> NoFile, res |-> IOFailure,
                     before |-> None]
            /\ UNCHANGED <<xattr, nextUuid, failures, stored, first>>
    /\ UNCHANGED <<fs, mtime, content, storeMode, indexVars, tagVars, scanVars, adds,
                   kept>>

----------------------------------------------------------------------------
(* The environment: the files change under the program. *)

\* A regular file's content is rewritten, which advances its modification time.
Modify(i) ==
    /\ scanTodo = <<>>
    /\ i \in FileIds \ DirIds
    /\ \E p \in DOMAIN fs : fs[p] = i
    /\ mtime[i] < MaxMtime
    /\ \E c \in Contents \ {content[i]} : content' = [content EXCEPT ![i] = c]
    /\ mtime' = [mtime EXCEPT ![i] = @ + 1]
    /\ last' = [op |-> "modify", arg |-> <<>>, file |-> i, res |-> None,
                before |-> [refresh |-> IF last.op = "update_cids" THEN last.res
                                                                   ELSE <<>>,
                            old |-> content[i]]]
    /\ UNCHANGED <<fs, xattr, storeMode, failures, nextUuid, indexVars, tagVars,
                   scanVars, adds, stored, first, kept>>

\* A regular file is renamed within its directory's device: the inode and its
\* attributes move with it.
Rename(p, q) ==
    /\ scanTodo = <<>>
    /\ p \in DOMAIN fs /\ q \in Paths \ DOMAIN fs
    /\ fs[p] \notin DirIds
    /\ parent(q) \in DOMAIN fs /\ fs[parent(q)] \in DirIds
    /\ st_dev(fs[parent(q)]) = st_dev(fs[p])
    /\ fs' = [r \in (DOMAIN fs \ {p}) \cup {q} |-> IF r = q THEN fs[p] ELSE fs[r]]
    /\ last' = [op |-> "rename", arg |-> <<p, q>>, file |-> fs[p], res |-> None, before |-> None]
    /\ UNCHANGED <<mtime, content, xattr, storeMode, failures, nextUuid, indexVars,
                   tagVars, scanVars, adds, stored, first, kept>>

----------------------------------------------------------------------------
(* Tag index.  tags and eid_tags are defaultdict(set): reading a missing key *)
(* inserts it with an empty set.                                            *)

TagNames == {"t1", "t2"}
TagEids  == {uuid4("f1", n) : n \in 1..NumTagEids}

\* defaultdict.__getitem__ / __missing__: the dict after d[k] has been read.
dd_touch(d, k) == IF k \in DOMAIN d THEN d ELSE d @@ (k :> {})

\* del d[k]
dd_del(d, k) == [j \in DOMAIN d \ {k} |-> d[j]]

\* What tagged(tag) returns in the current state.
TaggedSet(t) == IF t \in DOMAIN tags THEN tags[t] ELSE {}

\* What tags_of(eid) returns in the current state.
TagsOfSet(eid) == IF eid \in DOMAIN eid_tags THEN eid_tags[eid] ELSE {}

\* Whether the pair (eid, t) was in the tag map when tag/untag was called.
WasTagged(eid, t) == IF eid \in TaggedSet(t) THEN <<"present">> ELSE <<"absent">>

\* A tag that forgets the reverse map.
tag_one_sided(eid, t) ==
    /\ tags' = [dd_touch(tags, t) EXCEPT ![t] = @ \cup {eid}]
    /\ last' = [op |-> "tag", arg |-> <<eid, t>>, file |-> NoFile, res |-> None,
                before |-> WasTagged(eid, t)]
    /\ UNCHANGED <<eid_tags, fsVars, storeMode, indexVars, scanVars, adds, histVars>>

\* HyFS.tag(eid, tag)
tag(eid, t) ==
    /\ tags' = [dd_touch(tags, t) EXCEPT ![t] = @ \cup {eid}]
    /\ eid_tags' = [dd_touch(eid_tags, eid) EXCEPT ![eid] = @ \cup {t}]
    /\ last' = [op |-> "tag", arg |-> <<eid, t>>, file |-> NoFile, res |-> None,
                before |-> WasTagged(eid, t)]
    /\ UNCHANGED <<fsVars, storeMode, indexVars, scanVars, adds, histVars>>

\* An untag that removes with set.remove: a pair that is not there is a
\* KeyError, raised after the defaultdict has inserted the tag's entry.
untag_strict(eid, t) ==
    IF eid \in TaggedSet(t)
    THEN LET t1 == [tags EXCEPT ![t] = @ \ {eid}]
             e1 == [eid_tags EXCEPT ![eid] = @ \ {t}]
         IN  /\ tags' = IF t1[t] = {} THEN dd_del(t1, t) ELSE t1
             /\ eid_tags' = IF e1[eid] = {} THEN dd_del(e1, eid) ELSE e1
             /\ last' = [op |-> "untag", arg |-> <<eid, t>>, file |-> NoFile,
                         res |-> None, before |-> WasTagged(eid, t)]
             /\ UNCHANGED <<fsVars, storeMode, indexVars, scanVars, adds, histVars>>
    ELSE /\ tags' = dd_touch(tags, t)
         /\ last' = [op |-> "untag", arg |-> <<eid, t>>, file |-> NoFile,
                     res |-> <<"KeyError">>, before |-> WasTagged(eid, t)]
         /\ UNCHANGED <<eid_tags, fsVars, storeMode, indexVars, scanVars, adds, histVars>>

\* HyFS.untag(eid, tag)
untag(eid, t) ==
    LET t1 == [dd_touch(tags, t) EXCEPT ![t] = @ \ {eid}]
        e1 == [dd_touch(eid_tags, eid) EXCEPT ![eid] = @ \ {t}]
    IN  /\ tags' = IF t1[t] = {} THEN dd_del(t1, t) ELSE t1
        /\ eid_tags' = IF e1[eid] = {} THEN dd_del(e1, eid) ELSE e1
        /\ last' = [op |-> "untag", arg |-> <<eid, t>>, file |-> NoFile, res |-> None,
                    before |-> WasTagged(eid, t)]
        /\ UNCHANGED <<fsVars, storeMode, indexVars, scanVars, adds, histVars>>

\* HyFS.tagged(tag)
tagged(t) ==
    /\ tags' = dd_touch(tags, t)
    /\ last' = [op |-> "tagged", arg |-> t, file |-> NoFile, res |-> tags'[t], before |-> None]
    /\ UNCHANGED <<eid_tags, fsVars, storeMode, indexVars, scanVars, adds, histVars>>

\* HyFS.tags_of(eid)
tags_of(eid) ==
    /\ eid_tags' = dd_touch(eid_tags, eid)
    /\ last' = [op |-> "tags_of", arg |-> eid, file |-> NoFile, res |-> eid_tags'[eid],
                before |-> None]
    /\ UNCHANGED <<tags, fsVars, storeMode, indexVars, scanVars, adds, histVars>>

----------------------------------------------------------------------------
(* Flat index. *)

\* 'cid' not in node: the node holds no in-memory cid.
Missing == <<"missing">>

\* find_by_path / dict.get finding no node.
NoNode == [none |-> TRUE]

\* dict.get(k)
dict_get(d, k) == IF k \in DOMAIN d THEN d[k] ELSE None

\* d[k] = v
dict_set(d, k, v) == [j \in DOMAIN d \cup {k} |-> IF j = k THEN v ELSE d[j]]

\* FSNode(path=path, eid=eid, type='dir' if path.is_dir() else 'file')
FSNode(p, eid) ==
    [path |-> p, eid |-> eid, type |-> IF is_dir(fs, p) THEN "dir" ELSE "file",
     cid |-> Missing]

\* add_node, from the node's construction on: the node is registered under its
\* eid and its path, then the parent is looked up in the path map.
add_node_store(p, eid) ==
    LET pi         == dict_set(path_index, p, eid)
        parent_eid == dict_get(pi, parent(p))
    IN  /\ nodes' = dict_set(nodes, eid, FSNode(p, eid))
        /\ path_index' = pi
        /\ children_index' =
              IF Truthy(parent_eid)
              THEN [dd_touch(children_index, parent_eid)
                      EXCEPT ![parent_eid] = @ \cup {eid}]
              ELSE children_index

\* HyFS.add_node(path): the eid is resolved.  A path that does not exist makes
\* the resolution raise, and nothing is added.
add_node(p) ==
    IF p \in DOMAIN fs
    THEN \E o \in Outcomes(EidCalls) :
           LET i == fs[p]
               r == _compute_eid(xattr[i], st_dev(i), st_ino(i), mtime[i], o,
                                 uuid4(i, nextUuid[i]))
           IN  /\ r.generated => nextUuid[i] <= MaxUuid
               /\ Charge(o, r.made)
               /\ xattr' = [xattr EXCEPT ![i] = r.x]
               /\ nextUuid' = IF r.generated THEN [nextUuid EXCEPT ![i] = @ + 1]
                                             ELSE nextUuid
               /\ add_node_store(p, r.eid)
               /\ last' = [op |-> "add_node", arg |-> p, file |-> i, res |-> r.eid,
                           before |-> None]
    ELSE /\ last' = [op |-> "add_node", arg |-> p, file |-> NoFile,
                     res |-> IOFailure, before |-> None]
         /\ UNCHANGED <<xattr, nextUuid, failures, indexVars>>

\* hyfs.add_node(path)
AddNode(p) ==
    /\ scanTodo = <<>>
    /\ adds < MaxAdds
    /\ adds' = adds + 1
    /\ add_node(p)
    /\ UNCHANGED <<fs, mtime, content, storeMode, tagVars, scanVars, histVars>>

\* The eids a caller passes to add_node.
GivenEids == { <<"given", 1>> }

\* hyfs.add_node(path, eid)
AddNodeEid(p, eid) ==
    /\ scanTodo = <<>>
    /\ adds < MaxAdds
    /\ adds' = adds + 1
    /\ add_node_store(p, eid)
    /\ last' = [op |-> "add_node", arg |-> p, file |-> NoFile, res |-> eid,
                before |-> None]
    /\ UNCHANGED <<fsVars, storeMode, tagVars, scanVars, histVars>>

\* HyFS.find_by_path(path)
find_by_path(p) ==
    LET eid == dict_get(path_index, p) IN
    IF Truthy(eid) /\ eid \in DOMAIN nodes THEN nodes[eid] ELSE NoNode

\* The children set of an eid (children_index.get(eid, set())).
children_of(eid) == IF eid \in DOMAIN children_index THEN children_index[eid] ELSE {}

----------------------------------------------------------------------------
(* scan_fs: a new index, then add_node for the root and for every path under *)
(* it, in the order rglob yields them (a directory before its entries).     *)

\* [root_path] + list(root_path.rglob('*')), as a set.
Enumerated(root) == {p \in DOMAIN fs : is_relative_to(p, root)}

RECURSIVE TopDownOrders(_)
\* The orders in which the paths of S can be enumerated: a path comes after
\* every proper ancestor of it.
TopDownOrders(S) ==
    IF S = {} THEN { <<>> }
    ELSE UNION { { <<m>> \o o : o \in TopDownOrders(S \ {m}) } :
                 m \in {p \in S : \A q \in S : is_relative_to(p, q) => q = p} }

\* scan_fs(root_path), up to the loop.
ScanStart(root) ==
    /\ scanTodo = <<>>
    /\ root \in DOMAIN fs
    /\ scanned' = Enumerated(root)
    /\ scanTodo' \in TopDownOrders(Enumerated(root))
    /\ nodes' = <<>> /\ path_index' = <<>> /\ children_index' = <<>>
    /\ tags' = <<>> /\ eid_tags' = <<>>
    /\ adds' = 0
    /\ last' = [op |-> "scan_fs", arg |-> root, file |-> NoFile, res |-> None,
                before |-> None]
    /\ UNCHANGED <<fsVars, storeMode, histVars>>

\* scan_fs: one turn of the loop.
ScanStep ==
    /\ scanTodo # <<>>
    /\ add_node(Head(scanTodo))
    /\ scanTodo' = Tail(scanTodo)
    /\ UNCHANGED adds
    /\ UNCHANGED <<fs, mtime, content, storeMode, tagVars, scanned, histVars>>

\* The root the last scan was given.
ScanRoot == CHOOSE r \in scanned : \A p \in scanned : is_relative_to(p, r)

\* scan_fs has returned.
ScanDone == scanned # {} /\ scanTodo = <<>>

----------------------------------------------------------------------------
(* Tree builder. *)

AmbiguousRoot  == [error |-> "Multiple roots found, specify root_path"]
NotFound       == [error |-> "Root path not found in nodes"]
RecursionError == [error |-> "RecursionError"]

\* The eids of the nodes no other node's path is a proper ancestor of.
Roots ==
    {e \in DOMAIN nodes :
        ~ \E o \in DOMAIN nodes :
            /\ is_relative_to(nodes[e].path, nodes[o].path)
            /\ nodes[e].path # nodes[o].path}

\* The caller's variable before any tree was assigned to it.
NoTree == [unset |-> TRUE]

\* Whether a tree() result is a tree.
IsTree(r) == "error" \notin DOMAIN r

RECURSIVE _build_tree_node(_, _)
\* HyFS._build_tree_node(node), at recursion depth `depth`.
_build_tree_node(node, depth) ==
    IF depth > RecursionLimit THEN RecursionError
    ELSE IF node.type = "dir"
    THEN LET children == {_build_tree_node(nodes[c], depth + 1) : c \in children_of(node.eid)}
         IN  IF RecursionError \in children THEN RecursionError
             ELSE [path |-> node.path, eid |-> node.eid, type |-> node.type,
                   cid |-> node.cid, children |-> children]
    ELSE node

\* HyFS.tree(root_path): the tree, or the error raised.
tree_result(root_path) ==
    IF root_path = None /\ Cardinality(Roots) # 1 THEN AmbiguousRoot
    ELSE LET rp        == IF root_path = None
                          THEN nodes[CHOOSE e \in Roots : TRUE].path ELSE root_path
             root_node == find_by_path(rp)
         IN  IF root_node = NoNode THEN NotFound
             ELSE _build_tree_node(root_node, 1)

\* A build that attaches the children to the index's own root node instead of
\* to a copy of it.
Tree_in_place(root_path) ==
    /\ scanTodo = <<>>
    /\ last' = [op |-> "tree", arg |-> root_path, file |-> NoFile,
                res |-> tree_result(root_path), before |-> None]
    /\ nodes' = IF IsTree(tree_result(root_path))
                THEN [nodes EXCEPT ![tree_result(root_path).eid] = tree_result(root_path)]
                ELSE nodes
    /\ UNCHANGED <<fsVars, storeMode, path_index, children_index, tagVars, scanVars,
                   adds, histVars>>

\* hyfs.tree(root_path)
Tree(root_path) ==
    /\ scanTodo = <<>>
    /\ last' = [op |-> "tree", arg |-> root_path, file |-> NoFile,
                res |-> tree_result(root_path), before |-> None]
    /\ UNCHANGED <<fsVars, storeMode, indexVars, tagVars, scanVars, adds, histVars>>

\* t = hyfs.tree(root_path): the caller keeps the first tree a build returns.
KeepTree(root_path) ==
    /\ scanTodo = <<>>
    /\ kept = NoTree
    /\ IsTree(tree_result(root_path))
    /\ last' = [op |-> "tree", arg |-> root_path, file |-> NoFile,
                res |-> tree_result(root_path), before |-> None]
    /\ kept' = tree_result(root_path)
    /\ UNCHANGED <<fsVars, storeMode, indexVars, tagVars, scanVars, adds, stored, first>>

RECURSIVE tree_size(_)
RECURSIVE forest_size(_)
\* The number of tree nodes of a tree.
tree_size(t) == 1 + (IF "children" \in DOMAIN t THEN forest_size(t.children) ELSE 0)

\* The number of tree nodes of a set of trees.
forest_size(ts) ==
    IF ts = {} THEN 0
    ELSE LET t == CHOOSE t \in ts : TRUE IN tree_size(t) + forest_size(ts \ {t})

RECURSIVE tree_nodes(_)
\* The tree nodes of a tree: every subtree, the tree itself included.
tree_nodes(t) ==
    {t} \cup (IF "children" \in DOMAIN t
              THEN UNION {tree_nodes(c) : c \in t.children} ELSE {})

----------------------------------------------------------------------------
(* Query engine: filter and find, on the flat index and on a tree.          *)

\* path.name: the final component, empty for the path with no component.
name(p) == IF p = <<>> THEN "" ELSE p[Len(p)]

\* fnmatch(name, pattern) for the patterns used: "*" and literal names.
fnmatch(nm, pattern) == pattern = "*" \/ nm = pattern

\* The predicates filter is called with: by type, and find's
\* lambda n: fnmatch(n.path.name, pattern).
Patterns == {"*", "a", "f", "g"}
Preds == [kind : {"type"}, v : {"dir", "file"}] \cup [kind : {"find"}, v : Patterns]

\* pred(node)
holds(pred, node) ==
    IF pred.kind = "type" THEN node.type = pred.v ELSE fnmatch(name(node.path), pred.v)

\* HyFS.filter(pred): the matching nodes of the flat index.
HyFS_filter(pred) == {nodes[e] : e \in {d \in DOMAIN nodes : holds(pred, nodes[d])}}

RECURSIVE FSNode_filter(_, _)
\* FSNode.filter(pred): the matching tree nodes of a tree.
FSNode_filter(t, pred) ==
    (IF holds(pred, t) THEN {t} ELSE {})
        \cup (IF "children" \in DOMAIN t
               THEN UNION {FSNode_filter(c, pred) : c \in t.children} ELSE {})

----------------------------------------------------------------------------
(* Content hasher: the cid property of a node and the refresh pass.         *)

\* The attribute-store calls of one _compute_cid, and of one turn of
\* update_cids' loop.
CidCalls     == {"get_cid", "set_cid"}
RefreshCalls == {"remove_cid", "get_cid", "set_cid"}

\* The attributes and the bytes behind a path; a path that does not exist has
\* none, and every attribute-store call on it fails.
AttrsAt(xs, p) == IF p \in DOMAIN fs THEN xs[fs[p]] ELSE NoAttrs
BytesAt(p)     == IF is_file(fs, p) THEN content[fs[p]] ELSE ""
PutAttrs(xs, p, x) == IF p \in DOMAIN fs THEN [xs EXCEPT ![fs[p]] = x] ELSE xs

\* os.removexattr(path, 'user.hyfs.cid') inside try/except OSError.
_remove_xattr(x, key, ok) == IF ok THEN [x EXCEPT ![key] = None] ELSE x

\* _compute_cid(path): [cid, x, made]
_compute_cid(isfile, x, bytes, o) ==
    IF ~ isfile THEN [cid |-> None, x |-> x, made |-> {}]
    ELSE LET cached_cid == _get_xattr(x, "cid", o.get_cid) IN
         IF Truthy(cached_cid)
         THEN [cid |-> cached_cid, x |-> x, made |-> {"get_cid"}]
         ELSE LET c == sha256_hexdigest(bytes)
                  s == _set_xattr(x, "cid", c, o.set_cid)
              IN  [cid |-> c, x |-> s.x, made |-> {"get_cid", "set_cid"}]

\* A cid property that never looks at the node and always asks _compute_cid.
FSNode_cid_unmemoized(node, isfile, x, bytes, o) ==
    LET c == _compute_cid(isfile, x, bytes, o) IN
    [node |-> [node EXCEPT !.cid = c.cid], value |-> c.cid, x |-> c.x, made |-> c.made]

\* FSNode.cid (the property): [node, value, x, made]
FSNode_cid(node, isfile, x, bytes, o) ==
    IF node.cid # Missing
    THEN [node |-> node, value |-> node.cid, x |-> x, made |-> {}]
    ELSE LET c == _compute_cid(isfile, x, bytes, o) IN
         [node |-> [node EXCEPT !.cid = c.cid], value |-> c.cid, x |-> c.x,
          made |-> c.made]

\* Whether the call just before a cid read of node n was a change of its file
\* that itself came right after a refresh pass over n; and what that pass left.
RefreshedThenModified(n) ==
    IF /\ last.op = "modify"
       /\ n.eid \in DOMAIN last.before.refresh
       /\ n.path \in DOMAIN fs /\ fs[n.path] = last.file
    THEN [refreshed |-> TRUE, left |-> last.before.refresh[n.eid],
          old |-> last.before.old]
    ELSE [refreshed |-> FALSE]

\* node.cid, read on the flat-index node with eid e.
ReadCid(e) ==
    /\ scanTodo = <<>>
    /\ e \in DOMAIN nodes
    /\ \E o \in Outcomes(CidCalls) :
         LET n == nodes[e]
             r == FSNode_cid(n, is_file(fs, n.path), AttrsAt(xattr, n.path),
                             BytesAt(n.path), o)
         IN  /\ Charge(o, IF n.path \in DOMAIN fs THEN r.made ELSE {})
             /\ nodes' = [nodes EXCEPT ![e] = r.node]
             /\ xattr' = PutAttrs(xattr, n.path, r.x)
             /\ last' = [op |-> "cid", arg |-> e,
                         file |-> IF n.path \in DOMAIN fs THEN fs[n.path] ELSE NoFile,
                         res |-> r.value, before |-> RefreshedThenModified(n)]
    /\ UNCHANGED <<fs, mtime, content, storeMode, nextUuid, path_index,
                   children_index, tagVars, scanVars, adds, histVars>>

\* A refresh that clears both caches and leaves the recomputation to the next
\* read.
update_cids_node_lazy(ns, xs, e, o) ==
    LET n == ns[e] IN
    IF n.type # "file"
    THEN [nodes |-> ns, xattr |-> xs, made |-> {}, removed |-> TRUE]
    ELSE LET exists == n.path \in DOMAIN fs
             x1     == _remove_xattr(AttrsAt(xs, n.path), "cid", exists /\ o.remove_cid)
         IN  [nodes   |-> [ns EXCEPT ![e] = [n EXCEPT !.cid = Missing]],
              xattr   |-> PutAttrs(xs, n.path, x1),
              made    |-> IF exists THEN {"remove_cid"} ELSE {},
              removed |-> x1.cid = None]

\* One turn of update_cids' loop, on the node with eid e: [nodes, xattr, made,
\* removed] - removed: the attribute-store cid was removed or was not there.
update_cids_node(ns, xs, e, o) ==
    LET n == ns[e] IN
    IF n.type # "file"
    THEN [nodes |-> ns, xattr |-> xs, made |-> {}, removed |-> TRUE]
    ELSE LET cleared == [n EXCEPT !.cid = Missing]
             exists  == n.path \in DOMAIN fs
             x1      == _remove_xattr(AttrsAt(xs, n.path), "cid", exists /\ o.remove_cid)
             r       == FSNode_cid(cleared, is_file(fs, n.path), x1, BytesAt(n.path), o)
         IN  [nodes   |-> [ns EXCEPT ![e] = r.node],
              xattr   |-> PutAttrs(xs, n.path, r.x),
              made    |-> IF exists THEN {"remove_cid"} \cup r.made ELSE {},
              removed |-> x1.cid = None]

RECURSIVE update_cids(_, _, _, _, _)
\* L.update_cids(), from the k-th node of the list on; os[k] are the outcomes
\* of the attribute-store calls of the k-th turn.  [nodes, xattr, unmade, left]:
\* unmade - the calls that were not made; left - per refreshed file node, the
\* in-memory cid the pass left and whether the stored cid was removed.
update_cids(ns, xs, L, os, k) ==
    IF k > Len(L)
    THEN [nodes |-> ns, xattr |-> xs, unmade |-> {}, left |-> <<>>]
    ELSE LET one  == update_cids_node(ns, xs, L[k], [c \in RefreshCalls |-> os[<<k, c>>]])
             rest == update_cids(one.nodes, one.xattr, L, os, k + 1)
         IN  [nodes  |-> rest.nodes,
              xattr  |-> rest.xattr,
              unmade |-> {<<k, c>> : c \in RefreshCalls \ one.made} \cup rest.unmade,
              left   |-> IF ns[L[k]].type = "file" /\ L[k] \notin DOMAIN rest.left
                         THEN (L[k] :> [cid |-> one.nodes[L[k]].cid,
                                        removed |-> one.removed]) @@ rest.left
                         ELSE rest.left]

\* The lists of flat-index nodes the refresh pass is run on.
NodeLists == UNION {[1..n -> DOMAIN nodes] : n \in 1..MaxList}

\* L.update_cids() on a list of flat-index nodes.
UpdateCids(L) ==
    /\ scanTodo = <<>>
    /\ \E os \in Outcomes({<<k, c>> : k \in 1..Len(L), c \in RefreshCalls}) :
         LET r == update_cids(nodes, xattr, L, os, 1) IN
         /\ Charge(os, DOMAIN os \ r.unmade)
         /\ nodes' = r.nodes
         /\ xattr' = r.xattr
         /\ last' = [op |-> "update_cids", arg |-> L, file |-> NoFile,
                     res |-> r.left, before |-> None]
    /\ UNCHANGED <<fs, mtime, content, storeMode, nextUuid, path_index,
                   children_index, tagVars, scanVars, adds, histVars>>

\* The tree nodes hyfs.tree(root_path).filter(pred) returns, by eid: copies of
\* the flat nodes, made by the build.
ViewNodes(root_path, pred) ==
    LET t == tree_result(root_path) IN
    IF IsTree(t)
    THEN LET found == FSNode_filter(t, pred) IN
         [e \in {m.eid : m \in found} |-> CHOOSE m \in found : m.eid = e]
    ELSE <<>>

\* hyfs.tree(root_path).filter(pred)[:n].update_cids(): the refresh pass over
\* tree nodes.  The pass works on the copies; of the index only the files'
\* attributes change.
UpdateCidsView(root_path, pred, L) ==
    /\ scanTodo = <<>>
    /\ L \in UNION {[1..n -> DOMAIN ViewNodes(root_path, pred)] : n \in 1..MaxList}
    /\ \E os \in Outcomes({<<k, c>> : k \in 1..Len(L), c \in RefreshCalls}) :
         LET r == update_cids(ViewNodes(root_path, pred), xattr, L, os, 1) IN
         /\ Charge(os, DOMAIN os \ r.unmade)
         /\ xattr' = r.xattr
         /\ last' = [op |-> "update_cids_view", arg |-> L, file |-> NoFile,
                     res |-> r.left, before |-> None]
    /\ UNCHANGED <<fs, mtime, content, storeMode, nextUuid, indexVars, tagVars,
                   scanVars, adds, histVars>>

----------------------------------------------------------------------------
(* Specifications. *)

\* HyFS.__init__ over a filesystem no run has touched yet.
Init ==
    /\ fs \in Layouts
    /\ mtime = [i \in FileIds |-> 1]
    /\ content = [i \in FileIds \ DirIds |-> "c1"]
    /\ xattr = [i \in FileIds |-> NoAttrs]
    /\ storeMode \in StoreModes
    /\ failures = 0
    /\ nextUuid = [i \in FileIds |-> 1]
    /\ nodes = <<>>
    /\ path_index = <<>>
    /\ children_index = <<>>
    /\ tags = <<>>
    /\ eid_tags = <<>>
    /\ adds = 0
    /\ scanTodo = <<>>
    /\ scanned = {}
    /\ last = [op |-> "init", arg |-> <<>>, file |-> NoFile, res |-> None, before |-> None]
    /\ stored = [i \in FileIds |-> None]
    /\ first = [i \in FileIds |-> None]
    /\ kept = NoTree

\* The paths the identity resolver is called on.
ResolvePaths == { <<"a", "f">>, <<"a", "g">> }

\* The identity resolver over a changing filesystem.
NextResolve ==
    \/ \E p \in ResolvePaths : Resolve(p)
    \/ \E p \in ResolvePaths \cap DOMAIN fs : Modify(fs[p])
    \/ \E p, q \in ResolvePaths : Rename(p, q)

SpecResolve == Init /\ [][NextResolve]_vars

\* The tag index under tag and untag alone.
NextTagUntag ==
    \/ \E e \in TagEids, t \in TagNames : tag(e, t)
    \/ \E e \in TagEids, t \in TagNames : untag(e, t)

SpecTagUntag == Init /\ [][NextTagUntag]_vars

\* The tag index under all four of its operations.
NextTags ==
    \/ \E e \in TagEids, t \in TagNames : tag(e, t)
    \/ \E e \in TagEids, t \in TagNames : untag(e, t)
    \/ \E t \in TagNames : tagged(t)
    \/ \E e \in TagEids : tags_of(e)

SpecTags == Init /\ [][NextTags]_vars

\* The paths add_node and tree are called with.
IndexPaths == { <<>>, <<"a">>, <<"b">>, <<"a", "f">>, <<"a", "g">> }

\* The flat index under add_node calls in any order, and the tree view.
NextIndex ==
    \/ \E p \in IndexPaths : AddNode(p)
    \/ \E p \in IndexPaths, e \in GivenEids : AddNodeEid(p, e)
    \/ \E rp \in IndexPaths \cup {None} : Tree(rp)

SpecIndex == Init /\ [][NextIndex]_vars

\* The flat index as scan_fs builds it, and the tree view.
NextScan ==
    \/ \E root \in Paths : ScanStart(root)
    \/ ScanStep
    \/ \E rp \in Paths \cup {None} : Tree(rp)

SpecScan == Init /\ [][NextScan]_vars

\* The paths whose nodes are hashed.
CidPaths == { <<"a">>, <<"a", "f">> }

\* Content ids over an index of a few nodes, while the files change.
NextCid ==
    \/ \E p \in CidPaths \ DOMAIN path_index : AddNode(p)
    \/ \E e \in DOMAIN nodes : ReadCid(e)
    \/ \E L \in NodeLists : UpdateCids(L)
    \/ \E p \in CidPaths \cap DOMAIN fs : Modify(fs[p])

\* The index is built over the base layout: no path of CidPaths is a hard link.
InitCid == Init /\ fs = BaseLayout

SpecCid == InitCid /\ [][NextCid]_vars

\* The path whose file the attribute-store calls are made on.
StorePaths == { <<"a", "f">> }

\* Every operation that calls the attribute store, on the node of one file.
NextStore ==
    \/ \E p \in StorePaths : Resolve(p)
    \/ \E p \in StorePaths \ DOMAIN path_index : AddNode(p)
    \/ \E e \in DOMAIN nodes : ReadCid(e)
    \/ \E L \in NodeLists : UpdateCids(L)
    \/ \E p \in StorePaths \cap DOMAIN fs : Modify(fs[p])

SpecStore == InitCid /\ [][NextStore]_vars

\* Resolves of files of any device, inode and modification time on a store
\* that rejects every call.
InitFallback == Init /\ fs = BaseLayout /\ storeMode = "unsupported"

NextFallback ==
    \E dev \in FallbackDevs, ino \in FallbackInos, m \in FallbackMtimes :
        ResolveRejected(dev, ino, m)

SpecFallback == InitFallback /\ [][NextFallback]_vars

\* Content ids of one file whose node is replaced by later adds of its path,
\* with no refresh pass.
NextCache ==
    \/ \E p \in StorePaths : AddNode(p)
    \/ \E e \in DOMAIN nodes : ReadCid(e)
    \/ \E p \in StorePaths \cap DOMAIN fs : Modify(fs[p])

SpecCache == InitCid /\ [][NextCache]_vars

\* The refresh pass run through a tree view of the index.
NextView ==
    \/ \E p \in CidPaths \ DOMAIN path_index : AddNode(p)
    \/ \E e \in DOMAIN nodes : ReadCid(e)
    \/ \E p \in CidPaths \cap DOMAIN fs : Modify(fs[p])
    \/ \E rp \in CidPaths, pred \in Preds :
          \E L \in UNION {[1..n -> DOMAIN ViewNodes(rp, pred)] : n \in 1..MaxList} :
              UpdateCidsView(rp, pred, L)

SpecView == InitCid /\ [][NextView]_vars

\* The paths of the index a kept tree is built from.
BuildPaths == { <<"a">>, <<"b">>, <<"a", "f">> }

\* Builds, one of them kept by the caller, between adds to the index.
NextBuild ==
    \/ \E p \in BuildPaths : AddNode(p)
    \/ \E p \in BuildPaths, eid \in GivenEids : AddNodeEid(p, eid)
    \/ \E rp \in BuildPaths \cup {None} : Tree(rp)
    \/ \E rp \in BuildPaths \cup {None} : KeepTree(rp)

SpecBuild == InitCid /\ [][NextBuild]_vars

----------------------------------------------------------------------------
(* Claims about the identity resolver (SpecResolve). *)

\* C1: two successive resolve(p) calls on the same path, with nothing done to
\* the file between them, return the same eid, whatever the attribute store
\* does on each get and set.
C1_ResolveTwiceSame ==
    (last.op = "resolve" /\ last.before # None) => last.res = last.before

\* C2: once a resolve has stored a uuid for a file, every later resolve of that
\* file (at the same path or at the path it was renamed to) returns that uuid.
C2_StoredUuidStable ==
    (last.op = "resolve" /\ last.file # NoFile /\ stored[last.file] # None)
        => last.res = stored[last.file]

\* C3: with an attribute store that rejects every write, every resolve of the
\* same physical file returns the same fallback eid, also when the file's
\* content (and so its modification time) changes between resolves.
C3_FallbackStable ==
    (storeMode = "unsupported" /\ last.op = "resolve" /\ last.file # NoFile)
        => last.res = first[last.file]

----------------------------------------------------------------------------
(* Claims about the tag index (SpecTagUntag, SpecTags). *)

\* C4: in every state reached by tag and untag calls, for all eids e and tags
\* t, e is in tagged(t) if and only if t is in tags_of(e).
C4_TagsMutualInverse ==
    \A e \in TagEids, t \in TagNames : (e \in TaggedSet(t)) <=> (t \in TagsOfSet(e))

\* C4 witness: an untag has just removed a pair that was present, and its eid
\* and its tag both keep other pairs.
C4_Witness ==
    /\ last.op = "untag" /\ last.before = <<"present">>
    /\ last.arg[1] \in DOMAIN eid_tags
    /\ last.arg[2] \in DOMAIN tags

\* C5: in every state reached by tag, untag, tagged and tags_of calls, no tag
\* of the tag map has an empty eid set and no eid of the reverse map has an
\* empty tag set.
C5_NoEmptyEntries ==
    /\ \A t \in DOMAIN tags : tags[t] # {}
    /\ \A e \in DOMAIN eid_tags : eid_tags[e] # {}

\* C13: a tag of the pair the call before it tagged, and an untag of the pair
\* the call before it untagged, leave both maps of the tag index as they
\* were; an untag of a pair that is not present raises nothing and leaves
\* every tagged and tags_of result as it was.
C13_TagUntagIdempotent ==
    [][/\ (last.op = "tag" /\ last'.op = "tag" /\ last'.arg = last.arg)
            => UNCHANGED tagVars
       /\ (last.op = "untag" /\ last'.op = "untag" /\ last'.arg = last.arg)
            => UNCHANGED tagVars
       /\ (last'.op = "untag" /\ last'.before = <<"absent">>)
            => /\ last'.res = None
               /\ \A t \in TagNames : TaggedSet(t)' = TaggedSet(t)
               /\ \A e \in TagEids : TagsOfSet(e)' = TagsOfSet(e)]_vars

\* C13 witness: an untag has just been called on a pair that was not present,
\* while its tag holds other eids.
C13_Witness ==
    /\ last.op = "untag" /\ last.before = <<"absent">>
    /\ last.arg[2] \in DOMAIN tags
    /\ tags[last.arg[2]] # {}

----------------------------------------------------------------------------
(* Claims about the flat index and the tree view (SpecIndex, SpecScan). *)

\* Every eid the index mentions.
IndexEids ==
    DOMAIN nodes \cup DOMAIN children_index
        \cup UNION {children_index[e] : e \in DOMAIN children_index}

\* C6: in every state reached by add calls in any order, b is in the children
\* set of a if and only if a and b are both nodes and the parent directory of
\* b's path is a's path.
C6_ChildrenMatchPaths ==
    \A a, b \in IndexEids :
        (b \in children_of(a))
            <=> (/\ a \in DOMAIN nodes /\ b \in DOMAIN nodes
                 /\ parent(nodes[b].path) = nodes[a].path)

\* C7: after a top-down scan of a hierarchy, build(root) returns a tree with as
\* many tree nodes as the hierarchy has directories and files, and the child
\* eids of every directory tree node are that directory's children set.
C7_TreeRoundTrip ==
    (ScanDone /\ last.op = "tree" /\ last.arg = ScanRoot)
        => /\ IsTree(last.res)
           /\ tree_size(last.res) = Cardinality(scanned)
           /\ \A t \in tree_nodes(last.res) :
                 t.type = "dir" => {c.eid : c \in t.children} = children_of(t.eid)

\* C9: after a scan that enumerated k distinct paths the index holds k nodes,
\* the enumerated paths map to pairwise different eids, and no two nodes have
\* the same path.
C9_ScanOneNodePerPath ==
    ScanDone
        => /\ Cardinality(DOMAIN nodes) = Cardinality(scanned)
           /\ \A p, q \in scanned : p # q => path_index[p] # path_index[q]
           /\ \A d, e \in DOMAIN nodes : d # e => nodes[d].path # nodes[e].path

\* C10: on a non-empty index, build() without root_path fails with the
\* ambiguous-root error when more than one node has no proper ancestor in the
\* index and builds from that node when there is exactly one; with two such
\* nodes, build(root_path) with the path of either returns that tree only.
C10_RootSelection ==
    (last.op = "tree" /\ nodes # <<>>)
        => /\ (last.arg = None /\ Cardinality(Roots) > 1)
                 => last.res = AmbiguousRoot
           /\ (last.arg = None /\ Cardinality(Roots) = 1)
                 => /\ IsTree(last.res)
                    /\ last.res.eid \in Roots
           /\ (last.arg # None /\ Cardinality(Roots) = 2
                 /\ \E e \in Roots : nodes[e].path = last.arg)
                 => /\ IsTree(last.res)
                    /\ last.res.path = last.arg
                    /\ \A t \in tree_nodes(last.res) : is_relative_to(t.path, last.arg)

\* The eids that are children of an eid of S.
ChildrenOfAll(S) == UNION {children_of(e) : e \in S}

RECURSIVE Descendants(_, _)
\* The eids reached from S by one to n steps along the children map.
Descendants(S, n) ==
    IF n = 0 THEN {} ELSE ChildrenOfAll(S) \cup Descendants(ChildrenOfAll(S), n - 1)

\* C17: in every state reached by add calls, with the eid resolved or
\* supplied, no eid is its own descendant in the children map, and a build
\* does not run into the recursion limit.
C17_ChildrenMapAcyclic ==
    /\ \A e \in IndexEids : e \notin Descendants({e}, Cardinality(IndexEids))
    /\ last.op = "tree" => last.res # RecursionError

\* C18: in every state reached by add calls, with the eid resolved or
\* supplied, find_by_path(p) of every path p of the path map returns a node
\* whose path is p and whose eid is the eid the path map holds for p.
C18_FindByPathConsistent ==
    \A p \in DOMAIN path_index :
        /\ find_by_path(p) # NoNode
        /\ find_by_path(p).path = p
        /\ find_by_path(p).eid = path_index[p]

\* C16: after a top-down scan of a root, build(root) returns a tree, and for
\* every predicate the eids of the tree nodes filter finds in that tree are
\* the eids of the nodes filter finds in the flat index.
C16_TreeFilterIsFlatFilter ==
    (ScanDone /\ last.op = "tree" /\ last.arg = ScanRoot)
        => /\ IsTree(last.res)
           /\ \A pred \in Preds :
                 {t.eid : t \in FSNode_filter(last.res, pred)}
                     = {n.eid : n \in HyFS_filter(pred)}

----------------------------------------------------------------------------
(* Claims about content ids (SpecCid). *)

----------------------------------------------------------------------------
(* Claims about builds kept by the caller (SpecBuild). *)

\* C11: a build, whether it returns a tree or fails, leaves the node map, the
\* path map and the children map unchanged, and the tree an earlier build
\* returned is not changed by later add or build calls.
C11_BuildIsPureRead ==
    [][/\ last'.op = "tree" => UNCHANGED indexVars
       /\ kept # NoTree => kept' = kept]_vars

\* C11 witness: the caller holds a tree, and an add made since has changed
\* what a build from the same root returns now.
C11_Witness ==
    /\ kept # NoTree
    /\ last.op = "add_node"
    /\ IsTree(tree_result(kept.path))
    /\ tree_result(kept.path) # kept

----------------------------------------------------------------------------
(* Claims about attribute-store failures (SpecStore). *)

\* Whether a value is an eid a resolve can return, and whether it is a digest.
IsEid(v) == v[1] \in {"uuid", "hash"}
IsCid(v) == v[1] = "sha256"

\* C12: whatever attribute-store calls fail, a resolve of an existing path
\* returns an eid, a cid read of a regular file returns a digest, and the
\* refresh pass leaves a digest on every file node it was run on; on a store
\* where every call fails nothing is ever written and a resolve returns the
\* fallback eid of the file's device, inode and modification time.
C12_StoreFailuresNeverRaise ==
    /\ (last.op \in {"resolve", "add_node"} /\ last.file # NoFile) => IsEid(last.res)
    /\ (last.op = "cid" /\ last.file \in FileIds \ DirIds) => IsCid(last.res)
    /\ last.op = "update_cids"
          => \A e \in DOMAIN last.res : IsCid(last.res[e].cid)
    /\ storeMode = "unsupported" => xattr = [i \in FileIds |-> NoAttrs]
    /\ (storeMode = "unsupported" /\ last.op = "resolve" /\ last.file # NoFile)
          => last.res = fallback_eid(st_dev(last.file), st_ino(last.file),
                                     str_mtime(mtime[last.file]))

\* C12 witness: on a store that supports attributes, a refresh pass whose
\* remove call failed has completed and left a digest on the node.
C12_Witness ==
    /\ storeMode = "supported"
    /\ last.op = "update_cids"
    /\ \E e \in DOMAIN last.res : ~ last.res[e].removed /\ IsCid(last.res[e].cid)

----------------------------------------------------------------------------
(* Claims about the fallback eid (SpecFallback). *)

\* C14: of two successive resolves on a write-rejecting store, the fallback
\* eids are equal if and only if the two triples (device, inode, ctime
\* marker) are equal.
C14_FallbackFunctionOfTriple ==
    (last.op = "fallback" /\ Len(last.before.arg) = 3)
        => /\ last.res[1] = "hash"
           /\ (last.res = last.before.res) <=> (last.arg = last.before.arg)

\* C14 witness: two successive resolves whose triples differ in the device
\* only, the digits of device and inode run together being the same.
C14_Witness ==
    /\ last.op = "fallback" /\ Len(last.before.arg) = 3
    /\ last.arg[1] = 12 /\ last.arg[2] = 3
    /\ last.before.arg[1] = 1 /\ last.before.arg[2] = 23
    /\ last.arg[3] = last.before.arg[3]

----------------------------------------------------------------------------
(* Claims about the cid caches (SpecCache). *)

\* The cids cached for file i: in the attribute store, and on the index's
\* nodes of the file.
CachedCids(i) ==
    ({xattr[i].cid} \ {None})
        \cup ({nodes[d].cid : d \in {e \in DOMAIN nodes :
                                        /\ nodes[e].path \in DOMAIN fs
                                        /\ fs[nodes[e].path] = i}} \ {Missing})

\* C15 as stated: once a cid is cached for a regular file, in the attribute
\* store or on a node, every cid read of the file returns a cached value,
\* also after the file's content has changed.
C15_ReadReturnsCachedValue ==
    [][(last'.op = "cid" /\ last'.file \in FileIds \ DirIds
            /\ CachedCids(last'.file) # {})
          => last'.res \in CachedCids(last'.file)]_vars

\* C15 as amended: a cid read of a node that holds an in-memory cid returns
\* it, also after the file's content has changed; a read of a node that holds
\* none returns the attribute-store cid when one is stored and no call of the
\* read fails, and otherwise the stored cid or the hash of the current content
\* (the latter on a store that rejects every call).
C15_CacheTrustedWhereRead ==
    [][(last'.op = "cid" /\ last'.file \in FileIds \ DirIds)
          => LET n == nodes[last'.arg]
                 i == last'.file
             IN  IF n.cid # Missing THEN last'.res = n.cid
                 ELSE /\ last'.res \in {xattr[i].cid, sha256_hexdigest(content[i])} \ {None}
                      /\ (xattr[i].cid # None /\ failures' = failures
                             /\ storeMode = "supported")
                            => last'.res = xattr[i].cid
                      /\ storeMode = "unsupported"
                            => last'.res = sha256_hexdigest(content[i])]_vars

\* C15 witness: with no refresh pass since, a cid read has returned a value
\* that is not the hash of the file's current content.
C15_Witness ==
    /\ last.op = "cid" /\ last.file \in FileIds \ DirIds
    /\ ~ last.before.refreshed
    /\ last.res # sha256_hexdigest(content[last.file])

----------------------------------------------------------------------------
(* Claims about the refresh pass on a tree view (SpecView). *)

\* C19: right after the refresh pass has run over file nodes taken from a
\* tree view, a cid read of the flat-index node with the eid of one of them
\* returns the hash of the file's content, which is its content at the time
\* of the refresh.
C19_FlatNodeNotStaleAfterViewRefresh ==
    [][(last.op = "update_cids_view" /\ last'.op = "cid"
            /\ last'.arg \in DOMAIN last.res
            /\ last'.file \in FileIds \ DirIds)
          => last'.res = sha256_hexdigest(content[last'.file])]_vars

====
